---- MODULE Spec2Model ----
(***************************************************************************)
(* Model of synchronizer.py: one-way periodic mirroring of a source folder *)
(* into a replica folder.                                                  *)
(*                                                                         *)
(* Strings are sequences of one-character strings, so that str.replace is  *)
(* modelled by what it does (every occurrence, left to right).  The file   *)
(* system is a pair of path sets (dirs, files).  A call of                 *)
(* check_folder_state is split at the points where the interpreter can run *)
(* the SIGINT handler between two entries: one step per os.walk directory, *)
(* one step per zip_longest pair, one step for the rotation.               *)
(***************************************************************************)
EXTENDS Integers, Sequences, FiniteSets

\* ---------------------------------------------------------------- bounds
MaxEntries == 3
MaxCycles == 2

\* ------------------------------------------------------------- variables
VARIABLES
    source_directory_path,   \* self.source_directory_path
    replica_directory_path,  \* self.replica_directory_path
    dirs,                    \* directories that exist on disk
    files,                   \* regular files that exist on disk
    replica_folder_state,    \* self.replica_folder_state
    source_folder_state,     \* self.source_folder_state
    aliased,                 \* both attributes name the same dict object
    pc,                      \* position of the main thread
    state_only,              \* parameter of the running check_folder_state
    cur,                     \* directory_path of the current os.walk item
    pendFolders,             \* folders_in_directory not yet zipped
    pendFiles,               \* files_in_directory not yet zipped
    order,                   \* folders_in_directory in the order zipped
    stack,                   \* directories os.walk has still to visit
    deleted_folders,         \* deleted_folders not yet zipped
    deleted_files,           \* deleted_files not yet zipped
    cycle,                   \* Running cycles started so far
    quiet,                   \* no edit since the previous call returned
    quiet0,                  \* quiet, as it stood when the call began
    modified,                \* source files rewritten in place during a sleep
    ops,                     \* file-system mutations of the current call
    delCalls,                \* delete_files invocations of the current call
    walked,                  \* entries the current walk has enumerated
    prevWalked,              \* entries the previous cycle's walk enumerated
    base0,                   \* replica_folder_state when the call began
    baseOK0,                 \* base0 described the replica at that moment
    replica0,                \* replica entries at startup
    stoppedAt,               \* pc at the moment the interrupt was handled
    stopLogged,              \* 'Script is stopped' was logged
    pm                       \* record of the path-mapping specification

fsVars == <<dirs, files>>
cfgVars == <<source_directory_path, replica_directory_path>>
stateVars == <<replica_folder_state, source_folder_state, aliased>>
walkVars == <<state_only, cur, pendFolders, pendFiles, order, stack>>
delVars == <<deleted_folders, deleted_files>>
histVars == <<ops, delCalls, walked, prevWalked, base0, baseOK0, quiet0,
             replica0>>
envVars == <<cycle, quiet, modified>>
stopVars == <<stoppedAt, stopLogged>>
vars == <<cfgVars, fsVars, stateVars, pc, walkVars, delVars, histVars,
          envVars, stopVars, pm>>

\* --------------------------------------------------------------- strings
SEP == "/"
None == <<>>
Names == {<<"a">>, <<"s">>, <<"r">>}
SourceRoot == <<"s">>
ReplicaRoot == <<"r">>

\* os.path.join(directory_path, object_name) for a relative object_name
Join(directory_path, object_name) == directory_path \o <<SEP>> \o object_name

\* str.replace(old, new): every non-overlapping occurrence, left to right
RECURSIVE Replace(_, _, _)
Replace(str, old, new) ==
    IF Len(str) < Len(old) \/ Len(old) = 0 THEN str
    ELSE IF SubSeq(str, 1, Len(old)) = old
         THEN new \o Replace(SubSeq(str, Len(old) + 1, Len(str)), old, new)
         ELSE <<Head(str)>> \o Replace(Tail(str), old, new)

\* get_absolute_path(directory_path, object_name)
get_absolute_path(directory_path, object_name) ==
    Replace(Join(directory_path, object_name),
            replica_directory_path, source_directory_path)

\* the substitution of make_copy with its two roots exchanged
replica_absolute_path_Swapped(path_abs) ==
    Replace(path_abs, replica_directory_path, source_directory_path)

\* replica_absolute_path of make_copy and delete_files
replica_absolute_path(path_abs) ==
    Replace(path_abs, source_directory_path, replica_directory_path)

\* -------------------------------------------------- file-system helpers
SlashAt(p) == {i \in 1..Len(p) : p[i] = SEP}
LastSlash(p) == IF SlashAt(p) = {} THEN 0
                ELSE CHOOSE i \in SlashAt(p) : \A j \in SlashAt(p) : j <= i
Parent(p) == SubSeq(p, 1, LastSlash(p) - 1)
BaseName(p) == SubSeq(p, LastSlash(p) + 1, Len(p))
IsUnder(p, d) == /\ Len(p) > Len(d) + 1
                 /\ SubSeq(p, 1, Len(d) + 1) = d \o <<SEP>>
Ancestors(p) == {SubSeq(p, 1, i - 1) : i \in SlashAt(p)} \ {<<>>}
Rebase(p, from, to) == to \o SubSeq(p, Len(from) + 1, Len(p))

\* the paths of at most two components below a root
ChildNames == {<<"a">>, <<"s">>}
Universe(root) == {Join(root, n) : n \in Names}
                  \cup {Join(Join(root, n), m) : n \in Names, m \in ChildNames}

\* the trees below a root: at most MaxEntries entries, children inside folders
Trees(root) ==
    UNION {{[d |-> D, f |-> E \ D] :
              D \in {X \in SUBSET E :
                       \A p \in E : Parent(p) # root => Parent(p) \in X}} :
           E \in {Y \in SUBSET Universe(root) : Cardinality(Y) <= MaxEntries}}

EmptyState == [folders |-> {}, files |-> {}]

\* the content of a tree, every path rebased onto the source root
TrueSnapshot(root, D, F) ==
    [folders |-> {Rebase(p, root, SourceRoot) : p \in {q \in D : IsUnder(q, root)}},
     files |-> {Rebase(p, root, SourceRoot) : p \in {q \in F : IsUnder(q, root)}}]

\* ------------------------------------------- the effects of one handler
\* The operators below work on a record m of the fields a handler reads
\* and writes; m.crashed records an exception nothing catches.
Machine == [dirs |-> dirs, files |-> files,
            rfs |-> replica_folder_state, sfs |-> source_folder_state,
            ops |-> ops, delCalls |-> delCalls, walked |-> walked,
            crashed |-> FALSE]

\* os.path.isdir in the place of os.path.exists
exists_OnlyFolders(m, p) == p \in m.dirs

\* os.path.exists(p)
exists(m, p) == p \in m.dirs \cup m.files

\* the add as it would act if set_arguments had built two separate dicts
AddReplicaState_NoAlias(m, object_type, p) ==
    [m EXCEPT !.rfs = [m.rfs EXCEPT ![object_type] = @ \cup {p}]]

\* folder_state[object_type].add(path) on the dict the replica attribute names
AddReplicaState(m, object_type, p) ==
    LET st == [m.rfs EXCEPT ![object_type] = @ \cup {p}]
    IN [m EXCEPT !.rfs = st, !.sfs = IF aliased THEN st ELSE @]

\* folder_state[object_type].add(path) on the dict the source attribute names
AddSourceState(m, object_type, p) ==
    LET st == [m.sfs EXCEPT ![object_type] = @ \cup {p}]
    IN [m EXCEPT !.sfs = st, !.rfs = IF aliased THEN st ELSE @]

\* shutil.copytree(src, dst): os.makedirs(dst), then the content; the record
\* added to ops notes whether dst existed just before the call
copytree(m, src, dst) ==
    IF \E a \in Ancestors(dst) : a \in m.files
    THEN [m EXCEPT !.crashed = TRUE]
    ELSE [m EXCEPT
            !.dirs = @ \cup Ancestors(dst) \cup {dst}
                       \cup {Rebase(q, src, dst) :
                               q \in {x \in m.dirs : IsUnder(x, src)}},
            !.files = @ \cup {Rebase(q, src, dst) :
                                q \in {x \in m.files : IsUnder(x, src)}},
            !.ops = @ \cup {[op |-> "copytree", src |-> src, dst |-> dst,
                              existed |-> dst \in m.dirs \cup m.files]}]

\* shutil.copy(src, dst): open(dst, 'wb') needs the parent folder
copy(m, src, dst) ==
    IF Parent(dst) \notin m.dirs
    THEN [m EXCEPT !.crashed = TRUE]
    ELSE [m EXCEPT
            !.files = @ \cup {dst},
            !.ops = @ \cup {[op |-> "copy", src |-> src, dst |-> dst,
                              existed |-> dst \in m.dirs \cup m.files]}]

\* shutil.rmtree(path), path present
rmtree(m, src, path) ==
    IF path \in m.files
    THEN [m EXCEPT !.crashed = TRUE]
    ELSE [m EXCEPT
            !.dirs = {q \in @ : q # path /\ ~IsUnder(q, path)},
            !.files = {q \in @ : ~IsUnder(q, path)},
            !.ops = @ \cup {[op |-> "rmtree", src |-> src, dst |-> path,
                              existed |-> path \in m.dirs \cup m.files]}]

\* os.remove(path), path present
remove(m, src, path) ==
    IF path \in m.dirs
    THEN [m EXCEPT !.crashed = TRUE]
    ELSE [m EXCEPT
            !.files = @ \ {path},
            !.ops = @ \cup {[op |-> "remove", src |-> src, dst |-> path,
                              existed |-> path \in m.dirs \cup m.files]}]

\* make_copy with the final source_folder_state add moved into the branch
\* taken when the replica path already exists
make_copy_AddOnlyIfPresent(m, directory_path, object_name, object_type) ==
    LET path_abs == Join(directory_path, object_name)
        rap == replica_absolute_path(path_abs)
        seen == [m EXCEPT !.walked = @ \cup
                    {[path |-> path_abs, type |-> object_type,
                      present |-> rap \in m.dirs \cup m.files]}]
    IN IF m.crashed \/ object_name = None THEN m
       ELSE IF exists(seen, rap)
            THEN AddSourceState(seen, object_type, path_abs)
            ELSE LET m1 == AddReplicaState(seen, object_type, path_abs)
                 IN IF object_type = "folders"
                    THEN copytree(m1, path_abs, rap)
                    ELSE copy(m1, path_abs, rap)

\* Synchronizer.make_copy
make_copy(m, directory_path, object_name, object_type) ==
    LET path_abs == Join(directory_path, object_name)
        rap == replica_absolute_path(path_abs)
        seen == [m EXCEPT !.walked = @ \cup
                    {[path |-> path_abs, type |-> object_type,
                      present |-> rap \in m.dirs \cup m.files]}]
        copied == IF exists(seen, rap) THEN seen
                  ELSE LET m1 == AddReplicaState(seen, object_type, path_abs)
                       IN IF object_type = "folders"
                          THEN copytree(m1, path_abs, rap)
                          ELSE copy(m1, path_abs, rap)
    IN IF m.crashed \/ object_name = None THEN m
       ELSE IF copied.crashed THEN copied
       ELSE AddSourceState(copied, object_type, path_abs)

\* Synchronizer.delete_files
delete_files(m, directory_object, object_type) ==
    LET rap == replica_absolute_path(directory_object)
        called == [m EXCEPT !.delCalls = @ \cup
                      {[path |-> directory_object, type |-> object_type,
                        existed |-> exists(m, rap)]}]
    IN IF m.crashed \/ directory_object = None THEN m
       ELSE IF ~exists(called, rap) THEN called
       ELSE IF object_type = "folders"
            THEN rmtree(called, directory_object, rap)
            ELSE remove(called, directory_object, rap)

\* the state_only branch of the loop body of check_folder_state
collect_state(m, directory_path, object_name, object_type) ==
    IF object_name = None THEN m
    ELSE AddReplicaState(m, object_type,
                         get_absolute_path(directory_path, object_name))

\* zip_longest: the next element of a collection, None once it is exhausted
NextOf(S) == IF S = {} THEN {None} ELSE S

\* store a machine record back into the variables
Commit(m) ==
    /\ dirs' = m.dirs
    /\ files' = m.files
    /\ replica_folder_state' = m.rfs
    /\ source_folder_state' = m.sfs
    /\ ops' = m.ops
    /\ delCalls' = m.delCalls
    /\ walked' = m.walked

\* -------------------------------------------------------- initial state
NoMapping == [path |-> None, there |-> None, back |-> None, stage |-> 0]

\* __init__ after set_arguments and create_log_file: run_synchronizer begins
Init ==
    /\ source_directory_path = SourceRoot
    /\ replica_directory_path = ReplicaRoot
    /\ \E ts \in Trees(SourceRoot), tr \in Trees(ReplicaRoot) :
          /\ Cardinality(ts.d \cup ts.f \cup tr.d \cup tr.f) <= MaxEntries
          /\ dirs = {SourceRoot, ReplicaRoot} \cup ts.d \cup tr.d
          /\ files = ts.f \cup tr.f
          /\ replica0 = tr.d \cup tr.f
    /\ replica_folder_state = EmptyState
    /\ source_folder_state = EmptyState
    /\ aliased = TRUE
    /\ pc = "boot"
    /\ state_only = TRUE
    /\ cur = None
    /\ pendFolders = {}
    /\ pendFiles = {}
    /\ order = <<>>
    /\ stack = <<>>
    /\ deleted_folders = {}
    /\ deleted_files = {}
    /\ cycle = 0
    /\ quiet = TRUE
    /\ modified = {}
    /\ ops = {}
    /\ delCalls = {}
    /\ walked = {}
    /\ prevWalked = {}
    /\ base0 = EmptyState
    /\ baseOK0 = FALSE
    /\ quiet0 = TRUE
    /\ stoppedAt = "none"
    /\ stopLogged = FALSE
    /\ pm = NoMapping

\* --------------------------------------------------------------- actions
\* entry of check_folder_state(directory, folder_state, state_only)
BeginCall(directory, so) ==
    /\ pc' = "walk"
    /\ state_only' = so
    /\ cur' = None
    /\ pendFolders' = {}
    /\ pendFiles' = {}
    /\ order' = <<>>
    /\ stack' = <<directory>>
    /\ ops' = {}
    /\ delCalls' = {}
    /\ walked' = {}
    /\ prevWalked' = walked
    /\ quiet0' = quiet
    /\ base0' = replica_folder_state
    /\ baseOK0' = (replica_folder_state
                     = TrueSnapshot(replica_directory_path, dirs, files))

\* run_synchronizer: install the handler, then the Initializing call
InstallHandler ==
    /\ pc = "boot"
    /\ BeginCall(replica_directory_path, TRUE)
    /\ UNCHANGED <<cfgVars, fsVars, stateVars, delVars, replica0, envVars,
                   stopVars, pm>>

\* os.walk yields the next directory with its listing; a directory that
\* cannot be listed is passed over in silence (onerror is None)
WalkNext ==
    /\ pc = "walk"
    /\ cur = None
    /\ stack # <<>>
    /\ LET directory_path == Head(stack)
           scandir_ok == directory_path \in dirs
           folders_in_directory ==
               IF ~scandir_ok THEN {}
               ELSE {BaseName(p) :
                       p \in {q \in dirs : Parent(q) = directory_path}}
           files_in_directory ==
               IF ~scandir_ok THEN {}
               ELSE {BaseName(p) :
                       p \in {q \in files : Parent(q) = directory_path}}
       IN /\ stack' = Tail(stack)
          /\ order' = <<>>
          /\ pendFolders' = folders_in_directory
          /\ pendFiles' = files_in_directory
          /\ cur' = IF folders_in_directory \cup files_in_directory = {}
                    THEN None ELSE directory_path
    /\ UNCHANGED <<cfgVars, fsVars, stateVars, pc, state_only, delVars,
                   histVars, envVars, stopVars, pm>>

\* one iteration of "for folder, file in zip_longest(folders, files)"
WalkPair ==
    /\ pc = "walk"
    /\ cur # None
    /\ \E folder \in NextOf(pendFolders), file \in NextOf(pendFiles) :
          LET m == IF state_only
                   THEN collect_state(collect_state(Machine, cur, folder, "folders"),
                                      cur, file, "files")
                   ELSE make_copy(make_copy(Machine, cur, folder, "folders"),
                                  cur, file, "files")
              order1 == IF folder = None THEN order ELSE Append(order, folder)
              last == pendFolders \ {folder} = {} /\ pendFiles \ {file} = {}
          IN /\ Commit(m)
             /\ pendFolders' = pendFolders \ {folder}
             /\ pendFiles' = pendFiles \ {file}
             /\ pc' = IF m.crashed THEN "crashed" ELSE "walk"
             /\ order' = IF last THEN <<>> ELSE order1
             /\ cur' = IF last THEN None ELSE cur
             /\ stack' = IF last
                         THEN [i \in 1..Len(order1) |-> Join(cur, order1[i])]
                              \o stack
                         ELSE stack
    /\ UNCHANGED <<cfgVars, aliased, state_only, delVars, prevWalked, base0,
                   baseOK0, quiet0, replica0, envVars, stopVars, pm>>

\* the walk is exhausted: the two set differences
WalkDone ==
    /\ pc = "walk"
    /\ cur = None
    /\ stack = <<>>
    /\ deleted_folders' = replica_folder_state.folders \ source_folder_state.folders
    /\ deleted_files' = replica_folder_state.files \ source_folder_state.files
    /\ pc' = "delete"
    /\ UNCHANGED <<cfgVars, fsVars, stateVars, walkVars, histVars, envVars,
                   stopVars, pm>>

\* one iteration of "for folder, file in zip_longest(deleted_folders, deleted_files)"
DeletePair ==
    /\ pc = "delete"
    /\ deleted_folders \cup deleted_files # {}
    /\ \E folder \in NextOf(deleted_folders), file \in NextOf(deleted_files) :
          LET m == delete_files(delete_files(Machine, folder, "folders"),
                                file, "files")
          IN /\ Commit(m)
             /\ deleted_folders' = deleted_folders \ {folder}
             /\ deleted_files' = deleted_files \ {file}
             /\ pc' = IF m.crashed THEN "crashed" ELSE "delete"
    /\ UNCHANGED <<cfgVars, aliased, walkVars, prevWalked, base0, baseOK0,
                   quiet0, replica0, envVars, stopVars, pm>>

\* a rotation that adds the snapshot of the walk to the baseline instead of
\* replacing the baseline with it
Rotate_Merge ==
    /\ pc = "delete"
    /\ deleted_folders \cup deleted_files = {}
    /\ replica_folder_state' =
          [folders |-> replica_folder_state.folders
                         \cup source_folder_state.folders,
           files |-> replica_folder_state.files \cup source_folder_state.files]
    /\ source_folder_state' = EmptyState
    /\ aliased' = FALSE
    /\ quiet' = TRUE
    /\ pc' = IF state_only THEN "loop" ELSE "sleep"
    /\ UNCHANGED <<cfgVars, fsVars, walkVars, delVars, histVars, cycle,
                   modified, stopVars, pm>>

\* the rotation that ends check_folder_state, and the return to the caller
Rotate ==
    /\ pc = "delete"
    /\ deleted_folders \cup deleted_files = {}
    /\ replica_folder_state' = source_folder_state
    /\ source_folder_state' = EmptyState
    /\ aliased' = FALSE
    /\ quiet' = TRUE
    /\ pc' = IF state_only THEN "loop" ELSE "sleep"
    /\ UNCHANGED <<cfgVars, fsVars, walkVars, delVars, histVars, cycle,
                   modified, stopVars, pm>>

\* "while True": the next Running call, after the sleep if there was one
StartCycle ==
    /\ pc \in {"loop", "sleep"}
    /\ cycle < MaxCycles
    /\ cycle' = cycle + 1
    /\ BeginCall(source_directory_path, FALSE)
    /\ UNCHANGED <<cfgVars, fsVars, stateVars, delVars, replica0, quiet,
                   modified, stopVars, pm>>

\* stop_synchronizer without its sys.exit(): the stop is logged, the loop
\* goes on
Interrupt_NoExit ==
    /\ pc \in {"walk", "delete", "loop", "sleep"}
    /\ stopLogged' = TRUE
    /\ stoppedAt' = pc
    /\ pc' = pc
    /\ UNCHANGED <<cfgVars, fsVars, stateVars, walkVars, delVars, histVars,
                   envVars, pm>>

\* SIGINT once the handler is installed: stop_synchronizer
Interrupt ==
    /\ pc \in {"walk", "delete", "loop", "sleep"}
    /\ stopLogged' = TRUE
    /\ stoppedAt' = pc
    /\ pc' = "stopped"
    /\ UNCHANGED <<cfgVars, fsVars, stateVars, walkVars, delVars, histVars,
                   envVars, pm>>

\* SIGINT before signal.signal has run: the default handler, no log line
InterruptEarly ==
    /\ pc = "boot"
    /\ pc' = "killed"
    /\ UNCHANGED <<cfgVars, fsVars, stateVars, walkVars, delVars, histVars,
                   envVars, stopVars, pm>>

\* The owner of the source changes it while the process sleeps: at most one
\* change of one entry per sleep.
SourceEntries == {p \in dirs \cup files : IsUnder(p, source_directory_path)}

EditGuard ==
    /\ pc = "sleep"
    /\ quiet
    /\ cycle < MaxCycles

Edited ==
    /\ quiet' = FALSE
    /\ modified' = modified \cap files'
    /\ UNCHANGED <<cfgVars, stateVars, pc, walkVars, delVars, histVars, cycle,
                   stopVars, pm>>

\* a new file appears in the source
SourceCreateFile ==
    /\ EditGuard
    /\ Cardinality(SourceEntries) < MaxEntries
    /\ \E p \in Universe(source_directory_path) \ SourceEntries :
          /\ Parent(p) \in dirs
          /\ files' = files \cup {p}
          /\ dirs' = dirs
    /\ Edited

\* a file or a folder with its content disappears from the source
SourceRemove ==
    /\ EditGuard
    /\ \E p \in SourceEntries :
          /\ dirs' = {q \in dirs : q # p /\ ~IsUnder(q, p)}
          /\ files' = {q \in files : q # p /\ ~IsUnder(q, p)}
    /\ Edited

\* a file is replaced by an empty folder of the same name, or a folder by a file
SourceChangeKind ==
    /\ EditGuard
    /\ \E p \in SourceEntries :
          \/ /\ p \in files
             /\ files' = files \ {p}
             /\ dirs' = dirs \cup {p}
          \/ /\ p \in dirs
             /\ dirs' = {q \in dirs : q # p /\ ~IsUnder(q, p)}
             /\ files' = {q \in files : ~IsUnder(q, p)} \cup {p}
    /\ Edited

\* a source file is rewritten in place: same path, new content
SourceModifyFile ==
    /\ EditGuard
    /\ \E p \in SourceEntries \cap files : modified' = modified \cup {p}
    /\ quiet' = FALSE
    /\ UNCHANGED <<cfgVars, fsVars, stateVars, pc, walkVars, delVars, histVars,
                   cycle, stopVars, pm>>

\* the source root disappears with everything below it
SourceRootRemove ==
    /\ EditGuard
    /\ source_directory_path \in dirs
    /\ dirs' = {q \in dirs : q # source_directory_path
                              /\ ~IsUnder(q, source_directory_path)}
    /\ files' = {q \in files : ~IsUnder(q, source_directory_path)}
    /\ Edited

Next ==
    \/ InstallHandler
    \/ WalkNext
    \/ WalkPair
    \/ WalkDone
    \/ DeletePair
    \/ Rotate
    \/ StartCycle
    \/ Interrupt
    \/ InterruptEarly
    \/ SourceCreateFile
    \/ SourceRemove
    \/ SourceChangeKind
    \/ SourceRootRemove
    \/ SourceModifyFile

Spec == Init /\ [][Next]_vars

\* ------------------------------------------- the path mapping on its own
\* Roots and paths are drawn from bounded sets; the two substitutions of the
\* program are applied one after the other.
MapRoots == {<<"s">>, <<"r">>, <<SEP, "s">>, <<SEP, "r">>}

InitMap ==
    /\ \E from \in MapRoots :
          /\ source_directory_path = from
          /\ \E to \in MapRoots \ {from} : replica_directory_path = to
          /\ \E p \in Universe(from) : pm = [NoMapping EXCEPT !.path = p]
    /\ dirs = {}
    /\ files = {}
    /\ replica0 = {}
    /\ replica_folder_state = EmptyState
    /\ source_folder_state = EmptyState
    /\ aliased = TRUE
    /\ pc = "map"
    /\ state_only = TRUE
    /\ cur = None
    /\ pendFolders = {}
    /\ pendFiles = {}
    /\ order = <<>>
    /\ stack = <<>>
    /\ deleted_folders = {}
    /\ deleted_files = {}
    /\ cycle = 0
    /\ quiet = TRUE
    /\ modified = {}
    /\ ops = {}
    /\ delCalls = {}
    /\ walked = {}
    /\ prevWalked = {}
    /\ base0 = EmptyState
    /\ baseOK0 = FALSE
    /\ quiet0 = TRUE
    /\ stoppedAt = "none"
    /\ stopLogged = FALSE

mapFrame == <<cfgVars, fsVars, stateVars, pc, walkVars, delVars, histVars,
              envVars, stopVars>>

\* the source-to-replica substitution of make_copy and delete_files
MapToReplica ==
    /\ pc = "map"
    /\ pm.stage = 0
    /\ pm' = [pm EXCEPT !.there = replica_absolute_path(pm.path), !.stage = 1]
    /\ UNCHANGED mapFrame

\* the replica-to-source substitution of get_absolute_path
MapToSource ==
    /\ pc = "map"
    /\ pm.stage = 1
    /\ pm' = [pm EXCEPT
                !.back = get_absolute_path(Parent(pm.there), BaseName(pm.there)),
                !.stage = 2]
    /\ UNCHANGED mapFrame

NextMap ==
    \/ MapToReplica
    \/ MapToSource

SpecMap == InitMap /\ [][NextMap]_vars

\* ------------------------------------------------------------ properties
\* paths below a root, written relative to it
Relative(root) ==
    {SubSeq(p, Len(root) + 1, Len(p)) :
       p \in {q \in dirs \cup files : IsUnder(q, root)}}

\* the replica holds exactly the paths of the source
Mirrored == Relative(replica_directory_path) = Relative(source_directory_path)

\* a Running cycle has just returned and nobody has touched the source since
CycleEnded == pc = "sleep" /\ quiet

WalkedOf(object_type) == {w.path : w \in {x \in walked : x.type = object_type}}

Copies == {o \in ops : o.op \in {"copy", "copytree"}}
Removals == {o \in ops : o.op \in {"remove", "rmtree"}}

\* C1: when a Running cycle that began with a baseline describing the replica
\* ends, the replica holds every path of the source and no other path.
C1_Convergence == (CycleEnded /\ baseOK0) => Mirrored

\* C2: with an unchanging source the replica ends up holding exactly the
\* paths of the source; stated on the final state of a process that has
\* terminated on an uncaught exception, after which nothing changes any more.
C2_EventualMirroring == pc = "crashed" => Mirrored

\* C3: a Running cycle that follows another Running cycle with no edit in
\* between performs no copytree, copy, rmtree or remove.
C3_Idempotence ==
    (pc \in {"walk", "delete", "sleep"} /\ cycle >= 2 /\ quiet0) => ops = {}

\* C4: mapping a path under the source root to the replica namespace and
\* back yields the path.
C4_RoundTrip == pm.stage = 2 => pm.back = pm.path

\* C5: the mapping replaces the leading root only, so the result is the other
\* root followed by the unchanged remainder, and no two paths under the root
\* map to the same path.
C5_PrefixSubstitution ==
    pm.stage >= 1 =>
        /\ pm.there = Rebase(pm.path, source_directory_path,
                             replica_directory_path)
        /\ \A q \in Universe(source_directory_path) :
              replica_absolute_path(q) = pm.there => q = pm.path

\* C6: at the end of a Running cycle delete_files has been invoked on exactly
\* the folders of the baseline of the cycle's beginning that the walk did not
\* enumerate as folders, and likewise for files; a removal was performed for
\* exactly those of them whose replica path existed at the call.
C6_SetDifferenceDeletions ==
    pc = "sleep" =>
        /\ {[path |-> c.path, type |-> c.type] : c \in delCalls}
             = {[path |-> p, type |-> "folders"] :
                  p \in base0.folders \ WalkedOf("folders")}
               \cup {[path |-> p, type |-> "files"] :
                       p \in base0.files \ WalkedOf("files")}
        /\ \A c \in delCalls :
              c.existed <=> \E o \in Removals :
                               /\ o.src = c.path
                               /\ o.op = IF c.type = "folders"
                                         THEN "rmtree" ELSE "remove"
        /\ \A o \in Removals : \E c \in delCalls : c.path = o.src

\* C6 witness: a cycle ended in which make_copy copied an entry and
\* delete_files removed one entry and skipped another
C6_Witness ==
    /\ pc = "sleep"
    /\ Copies # {}
    /\ \E c \in delCalls : c.existed
    /\ \E c \in delCalls : ~c.existed

\* C7: an entry the previous cycle's walk enumerated and that is absent from
\* the source now has no replica path when this cycle ends.
C7_DeletionPropagation ==
    (CycleEnded /\ cycle >= 2) =>
        \A w \in prevWalked :
            w.path \notin dirs \cup files =>
                Rebase(w.path, source_directory_path, replica_directory_path)
                    \notin dirs \cup files

\* C8: the Initializing call leaves as baseline exactly the replica's entries
\* in the source namespace; when the first Running cycle ends every startup
\* entry of the replica that the source lacks is gone, and no copy was made
\* onto a startup entry.
C8_StartupBaseline ==
    /\ pc = "loop" =>
          replica_folder_state
              = TrueSnapshot(replica_directory_path, dirs, files)
    /\ (CycleEnded /\ cycle = 1) =>
          /\ \A q \in replica0 :
                Rebase(q, replica_directory_path, source_directory_path)
                    \notin dirs \cup files => q \notin dirs \cup files
          /\ \A o \in Copies : o.dst \notin replica0

\* C9: the loop stops only between cycles or during the sleep, never inside
\* a Running cycle.
C9_StopOnlyAtCheckPoint ==
    pc = "stopped" => (stoppedAt \in {"loop", "sleep"} \/ state_only)

\* C10: an interrupt handled by stop_synchronizer logs the stop event and
\* stops the loop; from then on no cycle starts and the disk is not touched.
C10_CleanLoggedStop ==
    [][/\ stoppedAt' # stoppedAt => (pc' = "stopped" /\ stopLogged')
       /\ pc = "stopped" =>
             /\ pc' = "stopped"
             /\ cycle' = cycle
             /\ dirs' = dirs
             /\ files' = files
             /\ ops' = ops]_vars

\* C10 witness: stopped during a sleep that a further cycle would have followed
C10_Witness ==
    /\ pc = "stopped"
    /\ stopLogged
    /\ stoppedAt = "sleep"
    /\ cycle < MaxCycles

\* C11: a process that has entered the loop leaves it only through the
\* interrupt handler; no outcome of a cycle ends the process.
C11_StoppedOnlyBySignal == pc # "crashed"

\* C12: when a copy or a removal of one entry fails in a Running cycle, every
\* other entry of the cycle is still processed: each source entry without a
\* replica path has been handed to make_copy, and each baseline entry the
\* source lacks has been handed to delete_files.
C12_PerEntryFailureScope ==
    pc = "crashed" =>
        /\ \A p \in SourceEntries :
              \/ \E w \in walked : w.path = p
              \/ replica_absolute_path(p) \in dirs \cup files
        /\ \A p \in base0.folders \ dirs :
              \E c \in delCalls : c.path = p /\ c.type = "folders"
        /\ \A p \in base0.files \ files :
              \E c \in delCalls : c.path = p /\ c.type = "files"

\* C13: a Running cycle whose walk finds the source root missing performs no
\* removal in the replica.
C13_UnreadableRootFatalForCycle ==
    (/\ ~state_only
     /\ pc \in {"walk", "delete"} \/ CycleEnded
     /\ source_directory_path \notin dirs) => Removals = {}

\* C14: every copytree and copy of a Running cycle goes to a replica path
\* that did not exist just before the call, and an entry whose replica path
\* make_copy found present is not copied in that cycle, also when the content
\* of the source file has been rewritten.
C14_NoOverwrite ==
    /\ \A o \in Copies : ~o.existed
    /\ \A w \in walked : w.present => \A o \in Copies : o.src # w.path

\* C14 witness: a cycle ended that walked a rewritten source file whose
\* replica path was present, and made no copy of it
C14_Witness ==
    /\ CycleEnded
    /\ \E p \in modified :
          /\ \E w \in walked : w.path = p /\ w.present
          /\ \A o \in Copies : o.src # p

\* the source root and everything below it
SourceTree ==
    [d |-> {q \in dirs : q = source_directory_path
                           \/ IsUnder(q, source_directory_path)},
     f |-> {q \in files : IsUnder(q, source_directory_path)}]

C16_BaselineRotation ==
    pc = "sleep" =>
        /\ replica_folder_state = [folders |-> WalkedOf("folders"),
                                   files |-> WalkedOf("files")]
        /\ source_folder_state = EmptyState
        /\ ~aliased

\* C16 witness: a cycle ended whose rotation dropped a path of the previous
\* baseline and kept a non-empty snapshot
C16_Witness ==
    /\ pc = "sleep"
    /\ walked # {}
    /\ \E p \in base0.folders \cup base0.files :
          p \notin replica_folder_state.folders \cup replica_folder_state.files

\* C17: the Initializing call performs no copytree, copy, rmtree or remove,
\* and leaves the replica with the entries it had at startup.
C17_InitializingPureRead ==
    state_only =>
        /\ ops = {}
        /\ {p \in dirs \cup files : IsUnder(p, replica_directory_path)}
             = replica0

\* C17 witness: the Initializing call has returned, over a replica that was
\* not empty, after its deletion and rotation steps
C17_Witness ==
    /\ pc = "loop"
    /\ state_only
    /\ replica0 # {}
    /\ replica_folder_state # EmptyState
    /\ ~aliased

\* C18: in every state, no path is both in the folders and in the files of
\* replica_folder_state, nor of source_folder_state.
C18_SnapshotDisjointness ==
    /\ replica_folder_state.folders \cap replica_folder_state.files = {}
    /\ source_folder_state.folders \cap source_folder_state.files = {}

\* the copies of the current call that carried the source entry p: its own
\* copy, and the recursive copy of a folder above it
CopiesOf(p) ==
    {o \in Copies : o.src = p \/ (o.op = "copytree" /\ IsUnder(p, o.src))}

\* C19: within one Running cycle every source entry is copied at most once;
\* an entry a recursive folder copy has carried is not copied again on its
\* own.
C19_NoDoubleProcessing ==
    \A w \in walked : Cardinality(CopiesOf(w.path)) <= 1

\* the entries of deleted_folders and deleted_files of the current call:
\* those already handed to delete_files and those still to come
DeletedOf(object_type) ==
    {c.path : c \in {x \in delCalls : x.type = object_type}}
      \cup (IF object_type = "folders" THEN deleted_folders ELSE deleted_files)

\* the deleted sets hold a folder together with an entry below it
NestedDeletion ==
    \E f \in DeletedOf("folders") :
       \E e \in DeletedOf("folders") \cup DeletedOf("files") : IsUnder(e, f)

\* C20: in a Running cycle whose deleted sets hold a folder together with
\* entries below it, no delete_files call raises, every removal is attempted
\* on a path that exists at that moment, and when the cycle has ended the
\* replica path of every deleted entry is absent.
C20_OrderIndependentDeletion ==
    (~state_only /\ NestedDeletion) =>
        /\ ~(pc = "crashed" /\ delCalls # {})
        /\ \A o \in Removals : o.existed
        /\ pc = "sleep" =>
              \A c \in delCalls :
                 replica_absolute_path(c.path) \notin dirs \cup files

====
